---- MODULE Spec2Model ----
(***************************************************************************)
(* mcp-smalledit: the tool-call handler of the server.  Every request is   *)
(* handled start to finish against the filesystem before the next one is   *)
(* accepted; the state is the filesystem plus a record of the request in   *)
(* hand and its outcome.                                                   *)
(*                                                                         *)
(* A file's content is [lines, noeol]: the sequence of its lines (each a   *)
(* sequence of one-symbol strings) and whether the last line lacks its     *)
(* terminating newline.  Symbols: ASCII characters, "xE9" (a lone byte     *)
(* 0xE9, as in a Latin-1 text file: not valid UTF-8) and "uFFFD" (the      *)
(* UTF-8 encoding of U+FFFD); "NL" is a newline inside an argument.        *)
(***************************************************************************)
EXTENDS Integers, Sequences, FiniteSets, TLC

\* fs: the filesystem.  pc: "idle" while the server waits for a request, "done"
\* when the handler has returned.  req, res, pre: the request being answered,
\* its outcome and the filesystem it started from.  edited: for each file the
\* previous request edited in place with a backup, its content before that
\* edit.  restored: for each file the previous request restored and kept the
\* backup of, the contents of the file and of the backup before that restore.
\* nreq: the number of requests received.
VARIABLES fs, pc, pre, req, res, edited, restored, nreq

vars == <<fs, pc, pre, req, res, edited, restored, nreq>>

\* Bounds of the model.
MaxReq == 2
MaxLines == 4
MaxLineLen == 4

Absent == [absent |-> TRUE]

Files == {"f1", "f2"}

\* The file names the handler and its commands derive from a target name;
\* ".work" stands for the work file of an in-place editor.
Suffixes == {"", ".bak", ".before-restore", ".preview.tmp", ".preview.tmp.new",
             "~", ".backup", ".orig", ".work"}

\* <<"", ".bak">> is the file named ".bak" in the working directory.
Paths == (Files \X Suffixes) \cup {<<"", ".bak">>}

P(file, suf) == <<file, suf>>

Exists(f, p) == p \in DOMAIN f /\ f[p] # Absent

Text(ls, ne) == [lines |-> ls, noeol |-> ne /\ ls # <<>>]

EmptyText == Text(<<>>, FALSE)

----------------------------------------------------------------------------
\* Sequence helpers.

RECURSIVE Flatten(_)
Flatten(ss) == IF ss = <<>> THEN <<>> ELSE Head(ss) \o Flatten(Tail(ss))

Drop(s, n) == SubSeq(s, n + 1, Len(s))

Take(s, n) == SubSeq(s, 1, n)

----------------------------------------------------------------------------
\* fs/promises readFile(path, 'utf-8') followed by writeFile(path, string):
\* decoding replaces every byte sequence that is not valid UTF-8 by U+FFFD,
\* and encoding writes that character's three bytes.

Utf8Symbol(c) == IF c = "xE9" THEN "uFFFD" ELSE c

Utf8Line(l) == [i \in 1..Len(l) |-> Utf8Symbol(l[i])]

ReadWriteUtf8(c) == [lines |-> [i \in 1..Len(c.lines) |-> Utf8Line(c.lines[i])],
                     noeol |-> c.noeol]

----------------------------------------------------------------------------
\* The substitution command s/REGEX/REPL/[g] of sed (and of perl -pe), applied
\* to one line.  A compiled regex is a sequence of atoms [any, ch]; a compiled
\* replacement is a sequence of items [amp, ch], amp standing for the match.

Lit(c) == [any |-> FALSE, ch |-> c]

AnyChar == [any |-> TRUE, ch |-> "."]

Plain(c) == [amp |-> FALSE, ch |-> c]

WholeMatch == [amp |-> TRUE, ch |-> "&"]

LitPattern(s) == [i \in 1..Len(s) |-> Lit(s[i])]

PlainRepl(s) == [i \in 1..Len(s) |-> Plain(s[i])]

MatchesAt(pat, line, i) ==
    /\ i + Len(pat) - 1 <= Len(line)
    /\ \A k \in 1..Len(pat) : pat[k].any \/ pat[k].ch = line[i + k - 1]

Expand(repl, matched) ==
    Flatten([k \in 1..Len(repl) |->
                IF repl[k].amp THEN matched ELSE <<repl[k].ch>>])

\* Left to right from position i: the leftmost match is replaced; with g the
\* scan goes on after it (an empty match is followed by one copied character).
RECURSIVE SubstFrom(_, _, _, _, _)
SubstFrom(pat, repl, g, line, i) ==
    IF MatchesAt(pat, line, i)
    THEN LET m == SubSeq(line, i, i + Len(pat) - 1)
             j == i + Len(pat)
         IN  IF Len(pat) = 0
             THEN Expand(repl, m) \o
                  (IF i > Len(line) THEN <<>>
                   ELSE <<line[i]>> \o
                        (IF g THEN SubstFrom(pat, repl, g, line, i + 1)
                              ELSE Drop(line, i)))
             ELSE Expand(repl, m) \o
                  (IF g THEN SubstFrom(pat, repl, g, line, j)
                        ELSE Drop(line, j - 1))
    ELSE IF i > Len(line) THEN <<>>
         ELSE <<line[i]>> \o SubstFrom(pat, repl, g, line, i + 1)

SubstLine(pat, repl, g, line) == SubstFrom(pat, repl, g, line, 1)

\* The command run over every line of a file (sed -i, perl -i -pe): the
\* number of lines and the missing final newline are kept.
SubstText(pat, repl, g, c) ==
    [lines |-> [i \in 1..Len(c.lines) |-> SubstLine(pat, repl, g, c.lines[i])],
     noeol |-> c.noeol]

----------------------------------------------------------------------------
\* quick_replace: the escaping of find and replace, the shell's reading of
\* the single-quoted argument, and sed's reading of the s command.

RegexSpecials == {".", "*", "+", "?", "^", "$", "{", "}", "(", ")", "|",
                  "[", "]", "\\"}

ReplaceSpecials == {"&", "/", "\\"}

\* s.replace(/'/g, "'\\''")
EscapeQuotes(s) ==
    Flatten([i \in 1..Len(s) |->
                IF s[i] = "'" THEN <<"'", "\\", "'", "'">> ELSE <<s[i]>>])

\* find.replace(/[.*+?^${}()|[\]\\]/g, '\\$&').replace(/'/g, "'\\''")
EscapeFind(s) ==
    EscapeQuotes(Flatten([i \in 1..Len(s) |->
                IF s[i] \in RegexSpecials THEN <<"\\", s[i]>> ELSE <<s[i]>>]))

\* replace.replace(/[&/\\]/g, '\\$&').replace(/'/g, "'\\''")
EscapeReplace(s) ==
    EscapeQuotes(Flatten([i \in 1..Len(s) |->
                IF s[i] \in ReplaceSpecials THEN <<"\\", s[i]>> ELSE <<s[i]>>]))

\* all ? `s/${escapedFind}/${escapedReplace}/g` : `s/${escapedFind}/${escapedReplace}/`
QuickReplacePattern(find, replace, all) ==
    <<"s", "/">> \o EscapeFind(find) \o <<"/">> \o EscapeReplace(replace)
                 \o <<"/">> \o (IF all THEN <<"g">> ELSE <<>>)

\* Characters that end or split a shell word when they stand unquoted.
ShellMeta == {"(", ")", "&", "|", ";", "<", ">", " "}

\* /bin/sh reading one word from position i; inq: inside single quotes.
\* [ok, out]: ok is FALSE when a quote is left open or the word is split.
RECURSIVE ShellScan(_, _, _)
ShellScan(w, i, inq) ==
    IF i > Len(w) THEN [ok |-> ~inq, out |-> <<>>]
    ELSE IF inq
    THEN IF w[i] = "'" THEN ShellScan(w, i + 1, FALSE)
         ELSE LET r == ShellScan(w, i + 1, TRUE)
              IN  [ok |-> r.ok, out |-> <<w[i]>> \o r.out]
    ELSE IF w[i] = "'" THEN ShellScan(w, i + 1, TRUE)
    ELSE IF w[i] = "\\"
    THEN IF i = Len(w) THEN [ok |-> FALSE, out |-> <<>>]
         ELSE LET r == ShellScan(w, i + 2, FALSE)
              IN  [ok |-> r.ok, out |-> <<w[i + 1]>> \o r.out]
    ELSE IF w[i] \in ShellMeta THEN [ok |-> FALSE, out |-> <<>>]
    ELSE LET r == ShellScan(w, i + 1, FALSE)
         IN  [ok |-> r.ok, out |-> <<w[i]>> \o r.out]

\* The argument the shell hands to sed for '${pattern}'.
ShellSingleQuoted(pattern) == ShellScan(<<"'">> \o pattern \o <<"'">>, 1, FALSE)

\* Index of the first "/" at or after i that no backslash precedes; 0: none.
RECURSIVE ScanDelim(_, _)
ScanDelim(t, i) ==
    IF i > Len(t) THEN 0
    ELSE IF t[i] = "\\" THEN ScanDelim(t, i + 2)
    ELSE IF t[i] = "/" THEN i
    ELSE ScanDelim(t, i + 1)

\* A basic regular expression: \( and \) group, "." is any character, a
\* backslash makes the next character literal.  [ok, atoms].  The operators
\* \{ \} \+ \? \| * [ ^ $ are not read: FindSet and ContentSet spell none.
RECURSIVE CompileRegex(_, _, _)
CompileRegex(t, i, depth) ==
    IF i > Len(t) THEN [ok |-> depth = 0, atoms |-> <<>>]
    ELSE IF t[i] = "\\"
    THEN IF i = Len(t) THEN [ok |-> FALSE, atoms |-> <<>>]
         ELSE IF t[i + 1] = "(" THEN CompileRegex(t, i + 2, depth + 1)
         ELSE IF t[i + 1] = ")"
         THEN IF depth = 0 THEN [ok |-> FALSE, atoms |-> <<>>]
              ELSE CompileRegex(t, i + 2, depth - 1)
         ELSE LET r == CompileRegex(t, i + 2, depth)
              IN  [ok |-> r.ok, atoms |-> <<Lit(t[i + 1])>> \o r.atoms]
    ELSE LET r == CompileRegex(t, i + 1, depth)
         IN  [ok |-> r.ok,
              atoms |-> <<IF t[i] = "." THEN AnyChar ELSE Lit(t[i])>> \o r.atoms]

\* A replacement: "&" is the match, a backslash makes the next character
\* literal.
RECURSIVE CompileRepl(_, _)
CompileRepl(t, i) ==
    IF i > Len(t) THEN <<>>
    ELSE IF t[i] = "\\"
    THEN IF i = Len(t) THEN <<>>
         ELSE <<Plain(t[i + 1])>> \o CompileRepl(t, i + 2)
    ELSE <<IF t[i] = "&" THEN WholeMatch ELSE Plain(t[i])>> \o CompileRepl(t, i + 1)

SedError == [ok |-> FALSE, pat |-> <<>>, repl |-> <<>>, g |-> FALSE]

\* sed reading the script s/REGEX/REPL/FLAGS: the regex ends at the first
\* unescaped "/", the replacement at the next; the only flag the symbols of
\* the model can spell is g.  An empty regex (no previous one) is an error.
SedSubstScript(script) ==
    IF Len(script) < 2 \/ script[1] # "s" \/ script[2] # "/" THEN SedError
    ELSE LET e1 == ScanDelim(script, 3)
             e2 == IF e1 = 0 THEN 0 ELSE ScanDelim(script, e1 + 1)
         IN  IF e1 = 0 \/ e2 = 0 THEN SedError
             ELSE LET rx    == CompileRegex(SubSeq(script, 3, e1 - 1), 1, 0)
                      flags == Drop(script, e2)
                  IN  IF e1 = 3 \/ ~rx.ok \/ flags \notin {<<>>, <<"g">>}
                      THEN SedError
                      ELSE [ok   |-> TRUE,
                            pat  |-> rx.atoms,
                            repl |-> CompileRepl(SubSeq(script, e1 + 1, e2 - 1), 1),
                            g    |-> flags = <<"g">>]

\* `sed -i.bak '${pattern}' '${file}'`: [ok, text], the file's new content.
SedQuickReplace(find, replace, all, c) ==
    LET arg == ShellSingleQuoted(QuickReplacePattern(find, replace, all))
        cmd == IF arg.ok THEN SedSubstScript(arg.out) ELSE SedError
    IN  IF cmd.ok THEN [ok |-> TRUE, text |-> SubstText(cmd.pat, cmd.repl, cmd.g, c)]
        ELSE [ok |-> FALSE, text |-> c]

----------------------------------------------------------------------------
\* line_edit: `sed -i.bak '${range}<command>' '${file}'`.  A range is the
\* sequence of the addresses of lineRange || `${lineNumber}`: <<a>> for "a",
\* <<a, b>> for "a,b", <<>> when neither argument is given ("undefined");
\* an address is Num(k) or Dollar ("$").

Min(a, b) == IF a < b THEN a ELSE b

Num(k) == [dollar |-> FALSE, n |-> k]

Dollar == [dollar |-> TRUE, n |-> 0]

\* sed rejects a range it cannot read, and line address 0.
RangeOk(range) ==
    /\ Len(range) \in {1, 2}
    /\ range[1] # Num(0)

\* The lines of an n-line input that the range selects: a second address not
\* above the first selects the first line only; an address beyond the input
\* selects nothing or ends the range at the last line.
Selected(range, n) ==
    LET start == IF range[1].dollar THEN n ELSE range[1].n
        last  == IF Len(range) = 1 THEN start
                 ELSE IF range[2].dollar THEN n
                 ELSE IF range[2].n <= start THEN start
                 ELSE Min(range[2].n, n)
    IN  IF n = 0 \/ start > n THEN {} ELSE start..last

\* The text of an a\ or i\ command: a backslash is removed and the character
\* after it kept.
RECURSIVE SedText(_, _)
SedText(t, i) ==
    IF i > Len(t) THEN <<>>
    ELSE IF t[i] = "\\"
    THEN IF i = Len(t) THEN <<>> ELSE <<t[i + 1]>> \o SedText(t, i + 2)
    ELSE <<t[i]>> \o SedText(t, i + 1)

\* Index of the first newline at or after i that no backslash precedes;
\* 0: none.
RECURSIVE ScanNewline(_, _)
ScanNewline(t, i) ==
    IF i > Len(t) THEN 0
    ELSE IF t[i] = "\\" THEN ScanNewline(t, i + 2)
    ELSE IF t[i] = "NL" THEN i
    ELSE ScanNewline(t, i + 1)

\* `${range}s/.*/${escapedContent}/`: [ok, repl]; the replacement ends at the
\* first unescaped "/" and nothing but a flag may follow it; an unescaped
\* newline leaves the command unterminated.
SedLineSubst(content) ==
    LET e == ScanDelim(content \o <<"/">>, 1)
    IN  IF e = Len(content) + 1 /\ ScanNewline(content, 1) = 0
        THEN [ok |-> TRUE, repl |-> CompileRepl(content, 1)]
        ELSE [ok |-> FALSE, repl |-> <<>>]

\* `${range}a\` or `${range}i\`, a newline, then ${escapedContent}: the text
\* of the command ends at the first unescaped newline, and what follows it
\* is read as the next command of the script.  [ok, text]; the one command
\* ContentSet spells there, "y" with no arguments, is rejected.
SedInsertText(content) ==
    LET e == ScanNewline(content, 1)
    IN  IF e = 0 THEN [ok |-> TRUE, text |-> SedText(content, 1)]
        ELSE [ok |-> Drop(content, e) = <<>>, text |-> SedText(Take(content, e - 1), 1)]

\* SedLineOutput with d emptying the line instead of removing it.
SedLineOutputBlanks(action, sel, text, repl, c, i) ==
    LET l == c.lines[i]
    IN  IF i \notin sel THEN <<l>>
        ELSE CASE action = "replace"       -> <<Expand(repl, l)>>
               [] action = "delete"        -> << <<>> >>
               [] action = "insert_after"  -> <<l, text>>
               [] action = "insert_before" -> <<text, l>>

\* What sed writes for input line i (1-based) of c under the command.
SedLineOutput(action, sel, text, repl, c, i) ==
    LET l == c.lines[i]
    IN  IF i \notin sel THEN <<l>>
        ELSE CASE action = "replace"       -> <<Expand(repl, l)>>
               [] action = "delete"        -> <<>>
               [] action = "insert_after"  -> <<l, text>>
               [] action = "insert_before" -> <<text, l>>

LineActions == {"replace", "delete", "insert_after", "insert_before"}

\* The whole run: [ok, text].  The output lacks its final newline only when
\* the input did and the last thing written is the input's last line.
SedLineEdit(action, range, content, c) ==
    LET arg  == ShellSingleQuoted(EscapeQuotes(content))
        sub  == IF arg.ok THEN SedLineSubst(arg.out) ELSE [ok |-> FALSE, repl |-> <<>>]
        ins  == IF arg.ok THEN SedInsertText(arg.out) ELSE [ok |-> FALSE, text |-> <<>>]
        n    == Len(c.lines)
    IN  IF \/ ~arg.ok
           \/ ~RangeOk(range)
           \/ action = "replace" /\ ~sub.ok
           \/ action \in {"insert_after", "insert_before"} /\ ~ins.ok
        THEN [ok |-> FALSE, text |-> c]
        ELSE LET sel == Selected(range, n)
                 out == Flatten([i \in 1..n |->
                            SedLineOutput(action, sel, ins.text, sub.repl, c, i)])
                 lastKept == n \notin sel \/ action \in {"replace", "insert_before"}
             IN  [ok |-> TRUE, text |-> Text(out, c.noeol /\ lastKept)]

----------------------------------------------------------------------------
\* The scripts handed to perl, sed and awk (pattern, script, command).  The
\* model draws them from four kinds: a substitution s/from/to/[g] of literal
\* text, the same with a warning written to stderr, a script the tool
\* rejects (it exits non-zero with a message on stderr and touches no file),
\* and a perl substitution that dies on the first record it does not match
\* (s/from/to/ or die "...").

Script(kind, from, to, g) == [kind |-> kind, from |-> from, to |-> to, g |-> g]

Scripts == { Script("subst", <<"a">>, <<"b">>, TRUE),
             Script("warn", <<"a">>, <<"x">>, FALSE),
             Script("syntax", <<>>, <<>>, FALSE) }

\* The scripts of the handlers that run perl.
PerlScripts == Scripts \cup { Script("die", <<"a">>, <<"x">>, FALSE) }

\* perl -0777 reads the whole file as one record; "NL" is the newline in it.
Slurp(c) ==
    Flatten([i \in 1..Len(c.lines) |->
                c.lines[i] \o (IF i < Len(c.lines) \/ ~c.noeol THEN <<"NL">> ELSE <<>>)])

RECURSIVE SplitLines(_)
SplitLines(s) ==
    IF s = <<>> THEN <<>>
    ELSE IF \E k \in 1..Len(s) : s[k] = "NL"
    THEN LET k == CHOOSE k \in 1..Len(s) :
                      s[k] = "NL" /\ \A j \in 1..(k - 1) : s[j] # "NL"
         IN  <<Take(s, k - 1)>> \o SplitLines(Drop(s, k))
    ELSE <<s>>

Unslurp(s) == Text(SplitLines(s), s # <<>> /\ s[Len(s)] # "NL")

\* One run of the tool over content c: [ok, stderr, text]; ok is exit status
\* 0, stderr whether anything was written to stderr.
RunScript(script, slurp, c) ==
    LET pat     == LitPattern(script.from)
        records == IF slurp THEN (IF c.lines = <<>> THEN <<>> ELSE <<Slurp(c)>>)
                   ELSE c.lines
        dies    == /\ script.kind = "die"
                   /\ \E i \in 1..Len(records) :
                         \A k \in 1..(Len(records[i]) + 1) : ~MatchesAt(pat, records[i], k)
    IN  IF script.kind = "syntax" \/ dies
        THEN [ok |-> FALSE, stderr |-> TRUE, text |-> c]
        ELSE [ok     |-> TRUE,
              stderr |-> script.kind = "warn",
              text   |-> IF slurp
                         THEN Unslurp(SubstLine(pat, PlainRepl(script.to), script.g,
                                                Slurp(c)))
                         ELSE SubstText(pat, PlainRepl(script.to), script.g, c)]

\* awk prints every record followed by a newline.
AwkOutput(c) == Text(c.lines, FALSE)

----------------------------------------------------------------------------
\* read_file, search_in_file, show_around_line: the file is read as UTF-8
\* text and split on "\n".

Max(a, b) == IF a > b THEN a ELSE b

\* (await readFile(file, 'utf-8')).split('\n'): a text that ends with a
\* newline (and the empty text) gives one more, empty, element.
SplitNewline(c) ==
    LET ls == ReadWriteUtf8(c).lines
    IN  IF c.noeol THEN ls ELSE ls \o << <<>> >>

\* new RegExp(String(pattern), flags): "(" opens and ")" closes a group, "."
\* is any character, a backslash makes the next character literal.
\* [ok, atoms]; ok is FALSE where the constructor throws a SyntaxError
\* (unterminated group, unmatched ")", "\" at the end of the pattern).
RECURSIVE CompileJsRegex(_, _, _)
CompileJsRegex(t, i, depth) ==
    IF i > Len(t) THEN [ok |-> depth = 0, atoms |-> <<>>]
    ELSE IF t[i] = "\\"
    THEN IF i = Len(t) THEN [ok |-> FALSE, atoms |-> <<>>]
         ELSE LET r == CompileJsRegex(t, i + 2, depth)
              IN  [ok |-> r.ok, atoms |-> <<Lit(t[i + 1])>> \o r.atoms]
    ELSE IF t[i] = "(" THEN CompileJsRegex(t, i + 1, depth + 1)
    ELSE IF t[i] = ")"
    THEN IF depth = 0 THEN [ok |-> FALSE, atoms |-> <<>>]
         ELSE CompileJsRegex(t, i + 1, depth - 1)
    ELSE LET r == CompileJsRegex(t, i + 1, depth)
         IN  [ok |-> r.ok,
              atoms |-> <<IF t[i] = "." THEN AnyChar ELSE Lit(t[i])>> \o r.atoms]

\* Case folding of the i flag.
Fold(c) == IF c = "A" THEN "a" ELSE c

\* JsMatchesAt comparing letters without regard to case whatever the flags.
JsMatchesAtAnyCase(pat, ci, line, k) ==
    /\ k + Len(pat) <= Len(line)
    /\ \A j \in 1..Len(pat) :
          \/ pat[j].any
          \/ Fold(pat[j].ch) = Fold(line[k + j])

\* The pattern matches the line at 0-based offset k.
JsMatchesAt(pat, ci, line, k) ==
    /\ k + Len(pat) <= Len(line)
    /\ \A j \in 1..Len(pat) :
          \/ pat[j].any
          \/ pat[j].ch = line[k + j]
          \/ ci /\ Fold(pat[j].ch) = Fold(line[k + j])

\* regex.test(line) of a regex with the g flag: the search starts at
\* regex.lastIndex; a match leaves lastIndex at its end, a failure (and a
\* lastIndex beyond the line) resets it to 0.  [found, lastIndex].
JsTest(pat, ci, line, lastIndex) ==
    LET starts == {k \in lastIndex..Len(line) : JsMatchesAt(pat, ci, line, k)}
    IN  IF starts = {} THEN [found |-> FALSE, lastIndex |-> 0]
        ELSE LET k == CHOOSE k \in starts : \A j \in starts : k <= j
             IN  [found |-> TRUE, lastIndex |-> k + Len(pat)]

\* `${marker} ${(i + 1).toString().padStart(4)}: ${fileLines[i]}` for the
\* lines first..last (1-based), the marker on line center.  A row keeps the
\* number itself: padStart(4) only puts blanks in front of its digits.
ContextRows(fileLines, first, last, center) ==
    [k \in 1..(last - first + 1) |->
        [marker |-> first + k - 1 = center,
         num    |-> first + k - 1,
         text   |-> fileLines[first + k - 1]]]

\* fileLines.forEach((line, index) => { if (regex.test(line)) {...} }) from
\* the 1-based line i on, the one regex object carrying lastIndex from line
\* to line: the blocks pushed, each [line, rows].
RECURSIVE SearchLoop(_, _, _, _, _, _)
SearchLoop(fileLines, pat, ci, context, i, lastIndex) ==
    IF i > Len(fileLines) THEN <<>>
    ELSE LET t == JsTest(pat, ci, fileLines[i], lastIndex)
             \* Math.max(0, index - context), Math.min(length - 1, index + context)
             startLine == Max(1, i - context)
             endLine   == Min(Len(fileLines), i + context)
             rest == SearchLoop(fileLines, pat, ci, context, i + 1, t.lastIndex)
         IN  IF t.found
             THEN <<[line |-> i, rows |-> ContextRows(fileLines, startLine, endLine, i)]>>
                  \o rest
             ELSE rest

\* Array.prototype.slice(begin, end) with begin, end counted from 0: a
\* negative index counts from the end of the array.
JsSlice(a, begin, end) ==
    LET n  == Len(a)
        b  == IF begin < 0 THEN Max(n + begin, 0) ELSE Min(begin, n)
        e  == IF end < 0 THEN Max(n + end, 0) ELSE Min(end, n)
    IN  [first |-> b + 1, items |-> IF e <= b THEN <<>> ELSE SubSeq(a, b + 1, e)]

----------------------------------------------------------------------------
\* The filesystem and the request handler.

Bounded(c) ==
    /\ Len(c.lines) <= MaxLines
    /\ \A i \in 1..Len(c.lines) : Len(c.lines[i]) <= MaxLineLen

T1 == Text(<< <<"a", "b", "a">>, <<"a">>, <<"(", "a", ")">> >>, FALSE)

T2 == Text(<< <<"a", "/", "b">>, <<"xE9", "a">> >>, TRUE)

T3 == Text(<< <<"a">> >>, FALSE)

NoFiles == [p \in Paths |-> Absent]

With(f, p, c) == [f EXCEPT ![p] = c]

\* The filesystems a request sequence may start from.
InitialFilesystems ==
    { With(With(NoFiles, P("f1", ""), T1), P("f2", ""), T3),
      With(With(With(With(With(NoFiles, P("f1", ""), T2), P("f1", ".bak"), T1),
                     P("f1", ".before-restore"), T3), P("f2", ".bak"), T2),
           P("", ".bak"), T3),
      With(With(With(With(NoFiles, P("f1", ""), T1), P("f1", ".orig"), T3),
                P("f1", "~"), T3), P("f2", ""), T2) }

NoRequest == [op |-> "none"]

Ok(text) == [ok |-> TRUE, code |-> "none", text |-> text]

\* catch (error) { throw new McpError(ErrorCode.InternalError, ...) }
Err(text) == [ok |-> FALSE, code |-> "InternalError", text |-> text]

NotEdited == [file \in Files |-> Absent]

NotRestored == [file \in Files |-> Absent]

Init ==
    /\ fs \in InitialFilesystems
    /\ pc = "idle"
    /\ pre = fs
    /\ req = NoRequest
    /\ res = Ok("none")
    /\ edited = NotEdited
    /\ restored = NotRestored
    /\ nreq = 0

\* The server is waiting and takes another request.
Accepting == pc = "idle" /\ nreq < MaxReq

\* One request handled from start to finish.
Handle(request, newfs, response) ==
    /\ \A p \in Paths : newfs[p] # Absent => Bounded(newfs[p])
    /\ fs' = newfs
    /\ pc' = "done"
    /\ pre' = fs
    /\ req' = request
    /\ res' = response
    /\ nreq' = nreq + 1
    /\ UNCHANGED <<edited, restored>>

\* BackupFile falling back on an alternate backup name.
BackupFileOrig(file) == P(file, ".orig")

\* const backupFile = `${file}.bak`
BackupFile(file) == P(file, ".bak")

\* The requests that edit a file in place and keep a backup of it.
BackupEdit(r) ==
    \/ r.op \in {"quick_replace", "line_edit"}
    \/ r.op \in {"sed_multifile", "perl_edit"} /\ r.backup
    \/ r.op = "sed_edit" /\ r.backup /\ ~r.preview

\* The files the request reported as edited: its target when it succeeded,
\* for sed_multifile the files with a successful entry.
EditedFiles(r, response) ==
    IF r.op = "none" \/ ~response.ok THEN {}
    ELSE IF r.op = "sed_multifile"
    THEN IF response.text # "Processed" THEN {}
         ELSE {response.results[k].file :
                  k \in {j \in 1..Len(response.results) : response.results[j].ok}}
    ELSE {r.file}

\* The response is sent and the server waits for the next request.
Respond ==
    /\ pc = "done"
    /\ pc' = "idle"
    /\ pre' = fs
    /\ req' = NoRequest
    /\ res' = Ok("none")
    /\ edited' = [file \in Files |->
                    IF BackupEdit(req) /\ file \in EditedFiles(req, res)
                    THEN pre[P(file, "")]
                    ELSE Absent]
    /\ restored' = [file \in Files |->
                      IF /\ req.op = "restore_backup" /\ res.ok
                         /\ req.file = file /\ req.keepBackup
                      THEN [before |-> pre[P(file, "")], backup |-> pre[BackupFile(file)]]
                      ELSE Absent]
    /\ UNCHANGED <<fs, nreq>>

\* EditInPlace keeping a backup that already exists instead of replacing it.
EditInPlaceKeepsOldBackup(f, file, backup, text) ==
    IF backup /\ ~Exists(f, P(file, ".bak"))
    THEN With(With(f, P(file, ".bak"), f[P(file, "")]), P(file, ""), text)
    ELSE With(f, P(file, ""), text)

\* perl -i${backupExt} / sed -i.bak on file: the input is renamed to the
\* backup name (or unlinked) and the output written under the file's name.
EditInPlace(f, file, backup, text) ==
    IF backup THEN With(With(f, P(file, ".bak"), f[P(file, "")]), P(file, ""), text)
    ELSE With(f, P(file, ""), text)

\* PreviewCopy with the rm aimed at the target's backup, `rm -f ${file}.bak`.
PreviewCopyRemovesBackup(f, file) ==
    With(With(f, P(file, ".bak"), Absent), P(file, ".preview.tmp"), f[P(file, "")])

\* rm -f .bak; cp '${file}' '${tempFile}'
PreviewCopy(f, file) ==
    With(With(f, P("", ".bak"), Absent), P(file, ".preview.tmp"), f[P(file, "")])

\* case 'sed_edit'
SedEdit(file, script, backup, preview) ==
    /\ Accepting
    /\ LET request == [op |-> "sed_edit", file |-> file, script |-> script,
                       backup |-> backup, preview |-> preview]
       IN  IF ~Exists(fs, P(file, ""))
           THEN Handle(request, fs, Err("File not found"))
           ELSE IF preview
           THEN LET f1  == PreviewCopy(fs, file)
                    run == RunScript(script, FALSE, f1[P(file, ".preview.tmp")])
                    \* perl ... && diff -u file temp | head -50; rm -f temp
                    stdout == run.ok /\ run.text # f1[P(file, "")]
                    f2  == With(f1, P(file, ".preview.tmp"), Absent)
                IN  Handle(request, f2,
                           IF run.stderr THEN Err("Sed error")
                           ELSE IF stdout THEN Ok("Preview of changes")
                           ELSE Ok("No changes would be made"))
           ELSE LET run == RunScript(script, FALSE, fs[P(file, "")])
                IN  IF ~run.ok THEN Handle(request, fs, Err("Command failed"))
                    ELSE Handle(request, EditInPlace(fs, file, backup, run.text),
                                IF run.stderr THEN Err("Sed error")
                                ELSE Ok("Successfully edited"))

\* PerlEdit swallowing the failure of the command.
PerlEditIgnoresFailure(file, script, backup, multiline) ==
    /\ Accepting
    /\ LET request == [op |-> "perl_edit", file |-> file, script |-> script,
                       backup |-> backup, multiline |-> multiline]
       IN  IF ~Exists(fs, P(file, ""))
           THEN Handle(request, fs, Err("File not found"))
           ELSE LET run == RunScript(script, multiline, fs[P(file, "")])
                IN  IF ~run.ok THEN Handle(request, fs, Ok("Successfully edited"))
                    ELSE Handle(request, EditInPlace(fs, file, backup, run.text),
                                Ok("Successfully edited"))

\* case 'perl_edit'
PerlEdit(file, script, backup, multiline) ==
    /\ Accepting
    /\ LET request == [op |-> "perl_edit", file |-> file, script |-> script,
                       backup |-> backup, multiline |-> multiline]
       IN  IF ~Exists(fs, P(file, ""))
           THEN Handle(request, fs, Err("File not found"))
           ELSE LET run == RunScript(script, multiline, fs[P(file, "")])
                IN  IF ~run.ok THEN Handle(request, fs, Err("Command failed"))
                    ELSE Handle(request, EditInPlace(fs, file, backup, run.text),
                                Ok("Successfully edited"))

\* case 'quick_replace'
QuickReplace(file, find, replace, all) ==
    /\ Accepting
    /\ LET request == [op |-> "quick_replace", file |-> file, find |-> find,
                       replace |-> replace, all |-> all]
       IN  IF ~Exists(fs, P(file, ""))
           THEN Handle(request, fs, Err("File not found"))
           ELSE LET run == SedQuickReplace(find, replace, all, fs[P(file, "")])
                IN  IF ~run.ok THEN Handle(request, fs, Err("Command failed"))
                    ELSE Handle(request, EditInPlace(fs, file, TRUE, run.text),
                                Ok("Replaced"))

\* case 'line_edit'
LineEdit(file, action, range, content) ==
    /\ Accepting
    /\ LET request == [op |-> "line_edit", file |-> file, action |-> action,
                       range |-> range, content |-> content]
       IN  IF ~Exists(fs, P(file, ""))
           THEN Handle(request, fs, Err("File not found"))
           ELSE IF action \notin LineActions
           THEN Handle(request, fs, Err("Unknown action"))
           ELSE LET run == SedLineEdit(action, range, content, fs[P(file, "")])
                IN  IF ~run.ok THEN Handle(request, fs, Err("Command failed"))
                    ELSE Handle(request, EditInPlace(fs, file, TRUE, run.text),
                                Ok("Successfully performed"))

\* case 'restore_backup'
RestoreBackup(file, keepBackup) ==
    /\ Accepting
    /\ LET request == [op |-> "restore_backup", file |-> file, keepBackup |-> keepBackup]
           alternatives == {suf \in {"~", ".backup", ".orig"} : Exists(fs, P(file, suf))}
       IN  IF ~Exists(fs, BackupFile(file))
           THEN Handle(request, fs,
                       IF alternatives # {} THEN Err("No .bak file found, but found")
                       ELSE Err("No backup file found"))
           ELSE LET backupContent == fs[BackupFile(file)]
                    f1 == IF Exists(fs, P(file, ""))
                          THEN With(fs, P(file, ".before-restore"),
                                    ReadWriteUtf8(fs[P(file, "")]))
                          ELSE fs
                    f2 == With(f1, P(file, ""), ReadWriteUtf8(backupContent))
                    f3 == IF ~keepBackup THEN With(f2, BackupFile(file), Absent) ELSE f2
                IN  Handle(request, f3, Ok("Successfully restored, Safety backup created"))

\* The order in which find lists the files.
FileOrder == <<"f1", "f2">>

\* MultifileLoop leaving the loop at the first file whose edit fails.
RECURSIVE MultifileLoopStopsAtFailure(_, _, _, _)
MultifileLoopStopsAtFailure(f, fileList, script, backup) ==
    IF fileList = <<>> THEN [fs |-> f, results |-> <<>>]
    ELSE LET file == Head(fileList)
             run  == RunScript(script, FALSE, f[P(file, "")])
             f1   == IF run.ok THEN EditInPlace(f, file, backup, run.text) ELSE f
             rest == IF run.ok
                     THEN MultifileLoopStopsAtFailure(f1, Tail(fileList), script, backup)
                     ELSE [fs |-> f1, results |-> <<>>]
         IN  [fs |-> rest.fs, results |-> <<[file |-> file, ok |-> run.ok]>> \o rest.results]

\* for (const file of fileList) { try { perl -i ... } catch { ... } }:
\* [fs, results], one result per file, TRUE for a file whose edit ran.
RECURSIVE MultifileLoop(_, _, _, _)
MultifileLoop(f, fileList, script, backup) ==
    IF fileList = <<>> THEN [fs |-> f, results |-> <<>>]
    ELSE LET file == Head(fileList)
             run  == RunScript(script, FALSE, f[P(file, "")])
             f1   == IF run.ok THEN EditInPlace(f, file, backup, run.text) ELSE f
             rest == MultifileLoop(f1, Tail(fileList), script, backup)
         IN  [fs |-> rest.fs, results |-> <<[file |-> file, ok |-> run.ok]>> \o rest.results]

\* case 'sed_multifile'; matching: the files filePattern names under directory.
SedMultifile(script, backup, matching) ==
    /\ Accepting
    /\ LET request  == [op |-> "sed_multifile", script |-> script, backup |-> backup,
                        matching |-> matching]
           fileList == SelectSeq(FileOrder,
                                 LAMBDA file : file \in matching /\ Exists(fs, P(file, "")))
           loop     == MultifileLoop(fs, fileList, script, backup)
       IN  IF fileList = <<>>
           THEN Handle(request, fs, Ok("No files found"))
           ELSE Handle(request, loop.fs,
                       [ok |-> TRUE, code |-> "none", text |-> "Processed",
                        count |-> Len(fileList), results |-> loop.results])

Tools == {"perl", "sed", "awk"}

\* The edit command of diff_preview run on the scratch copy: [ok, fs].
PreviewEdit(f, file, script, tool) ==
    LET tmp == P(file, ".preview.tmp")
        run == RunScript(script, FALSE, f[tmp])
    IN  CASE tool = "perl" ->
               \* perl -i -pe '${command}' '${tempFile}'
               [ok |-> run.ok, fs |-> IF run.ok THEN With(f, tmp, run.text) ELSE f]
          [] tool = "sed" ->
               \* sed -i.tmp '${command}' '${tempFile}' && rm -f '${tempFile}.tmp'
               [ok |-> run.ok, fs |-> IF run.ok THEN With(f, tmp, run.text) ELSE f]
          [] tool = "awk" ->
               \* awk '${command}' '${tempFile}' > '${tempFile}.new' && mv ...
               [ok |-> run.ok,
                fs |-> IF run.ok THEN With(f, tmp, AwkOutput(run.text))
                       ELSE With(f, P(file, ".preview.tmp.new"), EmptyText)]

\* case 'diff_preview'
DiffPreview(file, script, tool) ==
    /\ Accepting
    /\ LET request == [op |-> "diff_preview", file |-> file, script |-> script,
                       tool |-> tool]
       IN  IF ~Exists(fs, P(file, ""))
           THEN Handle(request, fs, Err("File not found"))
           ELSE LET f1   == PreviewCopy(fs, file)
                    edit == PreviewEdit(f1, file, script, tool)
                    \* diff -u '${file}' '${tempFile}' || true
                    stdout == edit.fs[P(file, ".preview.tmp")] # edit.fs[P(file, "")]
                    \* rm -f '${tempFile}'
                    f2   == With(edit.fs, P(file, ".preview.tmp"), Absent)
                IN  IF ~edit.ok THEN Handle(request, edit.fs, Err("Command failed"))
                    ELSE Handle(request, f2,
                                IF stdout THEN Ok("Preview of changes")
                                ELSE Ok("No changes would be made"))

\* const maxLines = 100
MaxDisplay == 100

\* An argument that was not given (or is the empty string: both are falsy).
NotGiven == <<>>

\* case 'read_file'; lines is the sequence of the addresses its string
\* spells: <<a>> for "a", <<a, b>> for "a-b", Dollar for "$".
ReadFile(file, search, lines, context) ==
    /\ Accepting
    /\ LET request == [op |-> "read_file", file |-> file, search |-> search,
                       lines |-> lines, context |-> context]
       IN  IF ~Exists(fs, P(file, ""))
           THEN Handle(request, fs, Err("File not found"))
           ELSE LET fileLines == SplitNewline(fs[P(file, "")])
                IN  IF search # NotGiven
                    THEN \* new RegExp(String(search), 'gi')
                         LET regex  == CompileJsRegex(search, 1, 0)
                             blocks == SearchLoop(fileLines, regex.atoms, TRUE, context, 1, 0)
                         IN  IF ~regex.ok
                             THEN Handle(request, fs, Err("Invalid regular expression"))
                             ELSE Handle(request, fs,
                                    [ok |-> TRUE, code |-> "none",
                                     text |-> IF blocks # <<>> THEN "Search results"
                                              ELSE "No matches found",
                                     blocks |-> blocks])
                    ELSE IF lines # NotGiven
                    THEN LET start == lines[1].n
                             endAddr == lines[Len(lines)]
                             end   == IF endAddr.dollar THEN Len(fileLines) ELSE endAddr.n
                             selectedLines == JsSlice(fileLines, start - 1, end).items
                         IN  Handle(request, fs,
                                    [ok |-> TRUE, code |-> "none", text |-> "Lines",
                                     start |-> start, end |-> end,
                                     toEnd |-> end = Len(fileLines),
                                     rows |-> [k \in 1..Len(selectedLines) |->
                                                 [num |-> start + k - 1,
                                                  text |-> selectedLines[k]]]])
                    ELSE LET displayLines == IF Len(fileLines) > MaxDisplay
                                             THEN Take(fileLines, MaxDisplay)
                                             ELSE fileLines
                         IN  Handle(request, fs,
                                    [ok |-> TRUE, code |-> "none", text |-> "Contents",
                                     truncated |-> Len(fileLines) > MaxDisplay,
                                     rows |-> [k \in 1..Len(displayLines) |->
                                                 [num |-> k, text |-> displayLines[k]]]])

\* case 'search_in_file'
SearchInFile(file, pattern, context, caseInsensitive) ==
    /\ Accepting
    /\ LET request == [op |-> "search_in_file", file |-> file, pattern |-> pattern,
                       context |-> context, caseInsensitive |-> caseInsensitive]
       IN  IF ~Exists(fs, P(file, ""))
           THEN Handle(request, fs, Err("File not found"))
           ELSE LET fileLines == SplitNewline(fs[P(file, "")])
                    regex     == CompileJsRegex(pattern, 1, 0)
                    blocks    == SearchLoop(fileLines, regex.atoms, caseInsensitive,
                                            context, 1, 0)
                IN  IF ~regex.ok
                    THEN Handle(request, fs, Err("Invalid regular expression"))
                    ELSE Handle(request, fs,
                                [ok |-> TRUE, code |-> "none",
                                 text |-> IF blocks # <<>> THEN "Found matches"
                                          ELSE "No matches found",
                                 blocks |-> blocks])

\* ShowAroundLine reading a scratch copy of the file and leaving it behind.
ShowAroundLineViaCopy(file, lineNumber, context) ==
    /\ Accepting
    /\ LET request == [op |-> "show_around_line", file |-> file,
                       lineNumber |-> lineNumber, context |-> context]
       IN  IF ~Exists(fs, P(file, ""))
           THEN Handle(request, fs, Err("File not found"))
           ELSE LET fileLines  == SplitNewline(fs[P(file, "")])
                    targetLine == lineNumber
                    startLine  == Max(1, targetLine - context)
                    endLine    == Min(Len(fileLines), targetLine + context)
                IN  IF targetLine < 1 \/ targetLine > Len(fileLines)
                    THEN Handle(request, fs, Err("Line number is out of range"))
                    ELSE Handle(request, With(fs, P(file, ".preview.tmp"), fs[P(file, "")]),
                                [ok |-> TRUE, code |-> "none", text |-> "Context around line",
                                 blocks |-> <<[line |-> targetLine,
                                              rows |-> ContextRows(fileLines, startLine,
                                                                   endLine, targetLine)]>>])

\* case 'show_around_line'
ShowAroundLine(file, lineNumber, context) ==
    /\ Accepting
    /\ LET request == [op |-> "show_around_line", file |-> file,
                       lineNumber |-> lineNumber, context |-> context]
       IN  IF ~Exists(fs, P(file, ""))
           THEN Handle(request, fs, Err("File not found"))
           ELSE LET fileLines  == SplitNewline(fs[P(file, "")])
                    targetLine == lineNumber
                    startLine  == Max(1, targetLine - context)
                    endLine    == Min(Len(fileLines), targetLine + context)
                IN  IF targetLine < 1 \/ targetLine > Len(fileLines)
                    THEN Handle(request, fs, Err("Line number is out of range"))
                    ELSE Handle(request, fs,
                                [ok |-> TRUE, code |-> "none", text |-> "Context around line",
                                 blocks |-> <<[line |-> targetLine,
                                              rows |-> ContextRows(fileLines, startLine,
                                                                   endLine, targetLine)]>>])

\* outputFile not given.
NoOutputFile == ""

\* AwkProcess without the check that the file exists: the shell opens the
\* output file, awk cannot open its input and exits non-zero.
AwkProcessUnchecked(file, script, outputFile) ==
    /\ Accepting
    /\ LET request == [op |-> "awk_process", file |-> file, script |-> script,
                       outputFile |-> outputFile]
           f1  == IF outputFile # NoOutputFile
                  THEN With(fs, P(outputFile, ""), EmptyText)
                  ELSE fs
       IN  IF ~Exists(f1, P(file, ""))
           THEN Handle(request, f1, Err("Command failed"))
           ELSE LET run == RunScript(script, FALSE, f1[P(file, "")])
                    stdout == AwkOutput(run.text)
                    f2  == IF outputFile # NoOutputFile /\ run.ok
                           THEN With(f1, P(outputFile, ""), stdout)
                           ELSE f1
                IN  Handle(request, f2,
                           IF ~run.ok THEN Err("Command failed")
                           ELSE IF run.stderr THEN Err("AWK error")
                           ELSE IF outputFile # NoOutputFile THEN Ok("Processed")
                           ELSE IF stdout = EmptyText THEN Ok("AWK processing complete")
                           ELSE Ok("AWK output"))

\* case 'awk_process'; outputFile is a file name or NoOutputFile.  The shell
\* opens (creates or empties) the output file before awk starts.
AwkProcess(file, script, outputFile) ==
    /\ Accepting
    /\ LET request == [op |-> "awk_process", file |-> file, script |-> script,
                       outputFile |-> outputFile]
       IN  IF ~Exists(fs, P(file, ""))
           THEN Handle(request, fs, Err("File not found"))
           ELSE LET f1  == IF outputFile # NoOutputFile
                           THEN With(fs, P(outputFile, ""), EmptyText)
                           ELSE fs
                    run == RunScript(script, FALSE, f1[P(file, "")])
                    stdout == AwkOutput(run.text)
                    f2  == IF outputFile # NoOutputFile /\ run.ok
                           THEN With(f1, P(outputFile, ""), stdout)
                           ELSE f1
                IN  Handle(request, f2,
                           IF ~run.ok THEN Err("Command failed")
                           ELSE IF run.stderr THEN Err("AWK error")
                           ELSE IF outputFile # NoOutputFile THEN Ok("Processed")
                           ELSE IF stdout = EmptyText THEN Ok("AWK processing complete")
                           ELSE Ok("AWK output"))

\* A file name as the words it is made of: "f1.bak" is <<"f1", ".", "bak">>.
SuffixWords(suf) ==
    CASE suf = "" -> <<>>
      [] suf = "~" -> <<"~">>
      [] suf = ".bak" -> <<".", "bak">>
      [] suf = ".backup" -> <<".", "backup">>
      [] suf = ".orig" -> <<".", "orig">>
      [] suf = ".before-restore" -> <<".", "before-restore">>
      [] suf = ".preview.tmp" -> <<".", "preview", ".", "tmp">>
      [] suf = ".preview.tmp.new" -> <<".", "preview", ".", "tmp", ".", "new">>
      [] suf = ".work" -> <<".", "work">>

FileName(p) == (IF p[1] = "" THEN <<>> ELSE <<p[1]>>) \o SuffixWords(p[2])

\* find -name "${pattern}" with a pattern "*" followed by literal words.
NameMatches(pattern, name) ==
    LET tail == Tail(pattern)
    IN  /\ Len(name) >= Len(tail)
        /\ Drop(name, Len(name) - Len(tail)) = tail

\* backupFile.replace(/\.(bak|backup|orig|~)$/, '')
InferOriginal(name) ==
    LET n == Len(name)
    IN  IF n >= 2 /\ name[n - 1] = "." /\ name[n] \in {"bak", "backup", "orig", "~"}
        THEN Take(name, n - 2)
        ELSE name

\* The lines of find's output, in the order find walks the directory.
RECURSIVE FindOutput(_)
FindOutput(found) ==
    IF found = {} THEN <<>>
    ELSE LET p == CHOOSE q \in found : TRUE
         IN  <<FileName(p)>> \o FindOutput(found \ {p})

\* | head -100
MaxListed == 100

\* The two stat programs: BSD stat takes -f "%m %z" as a format and prints the
\* time and the size; GNU stat takes -f as "file system status", prints the
\* status of the file system and fails on the format, and the || branch then
\* adds the line of times.  The first two words of that output are no
\* numbers, toISOString throws and the catch pushes the bare name.
Platforms == {"bsd", "gnu"}

\* case 'list_backups'
ListBackups(pattern, platform) ==
    /\ Accepting
    /\ LET request == [op |-> "list_backups", pattern |-> pattern, platform |-> platform]
           found   == {p \in Paths : Exists(fs, p) /\ NameMatches(pattern, FileName(p))}
           files   == Take(FindOutput(found), Min(Cardinality(found), MaxListed))
           entry(backupFile) ==
               IF platform = "bsd"
               THEN [backup |-> backupFile, info |-> TRUE,
                     original |-> InferOriginal(backupFile)]
               ELSE [backup |-> backupFile, info |-> FALSE, original |-> backupFile]
       IN  IF files = <<>>
           THEN Handle(request, fs, Ok("No backup files found"))
           ELSE Handle(request, fs,
                       [ok |-> TRUE, code |-> "none", text |-> "Found backup files",
                        count |-> Len(files),
                        entries |-> [k \in 1..Len(files) |-> entry(files[k])]])

\* The keys of helpContent.
HelpTopics == {"overview", "sed_edit", "sed_multifile", "awk_process", "quick_replace",
               "line_edit", "perl_edit", "diff_preview", "restore_backup",
               "list_backups", "read_file", "search_in_file", "show_around_line"}

\* case 'help'
Help(tool) ==
    /\ Accepting
    /\ LET request == [op |-> "help", tool |-> tool]
           helpKey == IF tool = "all" THEN "overview" ELSE tool
       IN  Handle(request, fs,
                  IF helpKey \in HelpTopics THEN Ok("Help") ELSE Ok("No help available"))

\* new McpError(code, message)
McpError(code, text) == [ok |-> FALSE, code |-> code, text |-> text]

\* catch (error) { throw new McpError(ErrorCode.InternalError, error.message) }
Catch(error) == McpError("InternalError", error.text)

\* default: the name is none of the tools.
UnknownTool(name) ==
    /\ Accepting
    /\ Handle([op |-> "unknown", name |-> name], fs,
              Catch(McpError("MethodNotFound", "Unknown tool")))

\* The arguments requests are drawn from.
FindSet == { <<"a">>, <<"(", "a", ")">>, <<"a", "/", "b">> }

ReplaceSet == { <<"x">>, <<"&", "'">> }

\* A line number no file of the model reaches.
Beyond == MaxLines + 1

RangeSet == { <<Num(1)>>, <<Num(2), Num(3)>>, <<Dollar>>, <<Num(2), Dollar>>,
              <<Num(1), Dollar>>, <<Num(0)>>, <<Num(3), Num(2)>>, <<Num(Beyond)>>,
              <<Num(2), Num(Beyond)>> }

ContentSet == { <<"x">>, <<"x", "\\", "y">>, <<"x", "NL", "y">> }

\* The line_edit requests: delete and insert_after on every range, replace
\* and insert_before on three of them, and the inserts of every content at
\* line 1.
LineEditArgs ==
    {[action |-> a, range |-> r, content |-> <<"x">>] :
        a \in {"delete", "insert_after"}, r \in RangeSet}
    \cup {[action |-> a, range |-> r, content |-> <<"x">>] :
        a \in {"replace", "insert_before"},
        r \in {<<Num(1)>>, <<Dollar>>, <<Num(1), Dollar>>}}
    \cup {[action |-> a, range |-> <<Num(1)>>, content |-> c] :
        a \in {"insert_after", "insert_before"}, c \in ContentSet}

\* Search patterns: a letter in either case and an unterminated group.
SearchSet == { <<"a">>, <<"A">>, <<"(">> }

\* lines of read_file: "2", "1-2", "2-$", "3-2", "0-2", and two beyond the end.
LinesSet == { <<Num(2)>>, <<Num(1), Num(2)>>, <<Num(2), Dollar>>, <<Num(3), Num(2)>>,
              <<Num(0), Num(2)>>, <<Num(Beyond + 1)>>, <<Num(2), Num(Beyond + 1)>> }

ReadArgs ==
    {[search |-> p, lines |-> NotGiven] : p \in SearchSet}
        \cup {[search |-> NotGiven, lines |-> l] : l \in LinesSet \cup {NotGiven}}

ContextSet == {1}

LineNumberSet == {0, 1, 2, Beyond + 1}

PatternSet == { <<"*", ".", "bak">>, <<"*", "~">>, <<"*", ".", "orig">>,
                <<"*", ".", "backup">> }

HelpSet == {"all", "list_backups", "nosuch"}

UnknownNames == {"nosuch"}

Next ==
    \/ \E file \in Files, script \in PerlScripts, backup \in BOOLEAN,
          preview \in BOOLEAN :
          SedEdit(file, script, backup, preview)
    \/ \E script \in PerlScripts, backup \in BOOLEAN, matching \in {Files, {}} :
          SedMultifile(script, backup, matching)
    \/ \E file \in Files, find \in FindSet, replace \in ReplaceSet, all \in BOOLEAN :
          QuickReplace(file, find, replace, all)
    \/ \E file \in Files, arg \in LineEditArgs :
          LineEdit(file, arg.action, arg.range, arg.content)
    \/ \E file \in Files, script \in PerlScripts, backup \in BOOLEAN,
          multiline \in BOOLEAN :
          PerlEdit(file, script, backup, multiline)
    \/ \E file \in Files, script \in Scripts, tool \in Tools :
          DiffPreview(file, script, tool)
    \/ \E file \in Files, keepBackup \in BOOLEAN : RestoreBackup(file, keepBackup)
    \/ \E file \in Files, arg \in ReadArgs, context \in ContextSet :
          ReadFile(file, arg.search, arg.lines, context)
    \/ \E file \in Files, pattern \in SearchSet, context \in ContextSet,
          caseInsensitive \in BOOLEAN :
          SearchInFile(file, pattern, context, caseInsensitive)
    \/ \E file \in Files, lineNumber \in LineNumberSet, context \in ContextSet :
          ShowAroundLine(file, lineNumber, context)
    \/ \E file \in Files, script \in Scripts, outputFile \in Files \cup {NoOutputFile} :
          AwkProcess(file, script, outputFile)
    \/ \E pattern \in PatternSet, platform \in Platforms : ListBackups(pattern, platform)
    \/ \E tool \in HelpSet : Help(tool)
    \/ \E name \in UnknownNames : UnknownTool(name)
    \/ Respond

Spec == Init /\ [][Next]_vars

----------------------------------------------------------------------------
\* The handlers step by step.  The in-place editors write their output to a
\* work file next to the target and put it in the target's place when the
\* run is complete; writeFile opens its file, which truncates it, and then
\* writes the data.  StepSpec follows sed_edit, perl_edit, quick_replace,
\* line_edit and restore_backup through these steps; pc is the step reached.

\* What the request's command makes of content c: [ok, stderr, text].
EditOutput(r, c) ==
    CASE r.op = "sed_edit" -> RunScript(r.script, FALSE, c)
      [] r.op = "perl_edit" -> RunScript(r.script, r.multiline, c)
      [] r.op = "quick_replace" ->
            SedQuickReplace(r.find, r.replace, r.all, c) @@ [stderr |-> FALSE]
      [] r.op = "line_edit" ->
            SedLineEdit(r.action, r.range, r.content, c) @@ [stderr |-> FALSE]

\* The edits StepSpec draws its requests from.
EditRequests ==
    {[op |-> "sed_edit", file |-> file, script |-> script, backup |-> backup,
      preview |-> FALSE] :
        file \in Files, script \in PerlScripts, backup \in BOOLEAN}
    \cup {[op |-> "perl_edit", file |-> file, script |-> script, backup |-> backup,
           multiline |-> FALSE] :
        file \in Files, script \in PerlScripts, backup \in BOOLEAN}
    \cup {[op |-> "quick_replace", file |-> file, find |-> find, replace |-> <<"x">>,
           all |-> TRUE] :
        file \in Files, find \in FindSet}
    \cup {[op |-> "line_edit", file |-> file, action |-> "delete", range |-> range,
           content |-> <<"x">>] :
        file \in Files, range \in {<<Num(1)>>, <<Num(0)>>}}

\* The handler has got as far as position, the filesystem being newfs.
Reach(request, newfs, position) ==
    /\ \A p \in Paths : newfs[p] # Absent => Bounded(newfs[p])
    /\ fs' = newfs
    /\ pc' = position
    /\ pre' = fs
    /\ req' = request
    /\ res' = Ok("none")
    /\ nreq' = nreq + 1
    /\ UNCHANGED <<edited, restored>>

\* The handler goes on to position, the filesystem becoming newfs.
Advance(newfs, position) ==
    /\ fs' = newfs
    /\ pc' = position
    /\ UNCHANGED <<pre, req, res, edited, restored, nreq>>

\* The handler returns response, the filesystem becoming newfs.
Return(newfs, response) ==
    /\ fs' = newfs
    /\ pc' = "done"
    /\ res' = response
    /\ UNCHANGED <<pre, req, edited, restored, nreq>>

\* existsSync(file), then the editor runs over the file and writes its
\* output to the work file; a run that fails removes the work file.
BeginEdit(request) ==
    /\ Accepting
    /\ IF ~Exists(fs, P(request.file, ""))
       THEN Handle(request, fs, Err("File not found"))
       ELSE LET run == EditOutput(request, fs[P(request.file, "")])
            IN  IF ~run.ok THEN Handle(request, fs, Err("Command failed"))
                ELSE Reach(request, With(fs, P(request.file, ".work"), run.text),
                           "written")

\* SaveOriginal going on without having saved the original.
SaveOriginalSkipped ==
    /\ pc = "written"
    /\ BackupEdit(req)
    /\ Advance(fs, "saved")

\* -i.bak: the original gets the backup name.  sed renames it; perl gives it
\* a second name (a hard link) when the backup name is free and renames it
\* when a backup of that name exists.
SaveOriginal ==
    /\ pc = "written"
    /\ BackupEdit(req)
    /\ LET linked == /\ req.op \in {"sed_edit", "perl_edit"}
                     /\ ~Exists(fs, P(req.file, ".bak"))
           saved  == With(fs, P(req.file, ".bak"), fs[P(req.file, "")])
       IN  Advance(IF linked THEN saved ELSE With(saved, P(req.file, ""), Absent),
                   "saved")

\* The work file is renamed to the target; the command exits and the handler
\* answers.
ReplaceTarget ==
    /\ pc = "saved" \/ (pc = "written" /\ ~BackupEdit(req))
    /\ LET run == EditOutput(req, pre[P(req.file, "")])
       IN  Return(With(With(fs, P(req.file, ""), fs[P(req.file, ".work")]),
                       P(req.file, ".work"), Absent),
                  IF req.op = "sed_edit" /\ run.stderr THEN Err("Sed error")
                  ELSE IF req.op = "quick_replace" THEN Ok("Replaced")
                  ELSE IF req.op = "line_edit" THEN Ok("Successfully performed")
                  ELSE Ok("Successfully edited"))

\* existsSync(backupFile); backupContent = await readFile(backupFile, 'utf-8')
BeginRestore(file, keepBackup) ==
    /\ Accepting
    /\ LET request == [op |-> "restore_backup", file |-> file, keepBackup |-> keepBackup]
           alternatives == {suf \in {"~", ".backup", ".orig"} : Exists(fs, P(file, suf))}
       IN  IF ~Exists(fs, BackupFile(file))
           THEN Handle(request, fs,
                       IF alternatives # {} THEN Err("No .bak file found, but found")
                       ELSE Err("No backup file found"))
           ELSE Reach(request, fs, "read")

\* writeFile(`${file}.before-restore`, ...) opens the safety backup.
OpenSafetyBackup ==
    /\ pc = "read"
    /\ Exists(fs, P(req.file, ""))
    /\ Advance(With(fs, P(req.file, ".before-restore"), EmptyText), "safety_open")

\* ... and writes what readFile(file, 'utf-8') returned.
WriteSafetyBackup ==
    /\ pc = "safety_open"
    /\ Advance(With(fs, P(req.file, ".before-restore"),
                    ReadWriteUtf8(fs[P(req.file, "")])),
               "safety_written")

\* writeFile(file, backupContent) opens the target.
OpenTarget ==
    /\ pc = "safety_written" \/ (pc = "read" /\ ~Exists(fs, P(req.file, "")))
    /\ Advance(With(fs, P(req.file, ""), EmptyText), "target_open")

\* ... and writes backupContent.
WriteTarget ==
    /\ pc = "target_open"
    /\ Advance(With(fs, P(req.file, ""), ReadWriteUtf8(pre[BackupFile(req.file)])),
               "target_written")

\* if (!keepBackup) rm -f backupFile; return
FinishRestore ==
    /\ pc = "target_written"
    /\ Return(IF ~req.keepBackup THEN With(fs, BackupFile(req.file), Absent) ELSE fs,
              Ok("Successfully restored, Safety backup created"))

StepNext ==
    \/ \E request \in EditRequests : BeginEdit(request)
    \/ SaveOriginal
    \/ ReplaceTarget
    \/ \E file \in Files, keepBackup \in BOOLEAN : BeginRestore(file, keepBackup)
    \/ OpenSafetyBackup
    \/ WriteSafetyBackup
    \/ OpenTarget
    \/ WriteTarget
    \/ FinishRestore
    \/ Respond

StepSpec == Init /\ [][StepNext]_vars

----------------------------------------------------------------------------
\* Properties of the handler.

Done == pc = "done"

PreviewRequest ==
    /\ Done
    /\ \/ req.op = "diff_preview"
       \/ req.op = "sed_edit" /\ req.preview

C2_ScratchCopyRemoved ==
    PreviewRequest => ~Exists(fs, P(req.file, ".preview.tmp"))

\* C3: after every successful edit that keeps a backup (sed_edit, perl_edit,
\* sed_multifile with backup=true, every quick_replace and line_edit), file +
\* '.bak' exists and holds the content the file had immediately before that
\* edit, whatever backup was there before.
C3_BackupHoldsContentBeforeEdit ==
    (Done /\ BackupEdit(req)) =>
        \A file \in EditedFiles(req, res) :
            /\ Exists(fs, P(file, ".bak"))
            /\ fs[P(file, ".bak")] = pre[P(file, "")]

\* The second of two successive backup edits of a file that changed it: the
\* backup of the first edit is replaced by the content before the second.
C3_Witness ==
    /\ Done /\ BackupEdit(req)
    /\ \E file \in EditedFiles(req, res) :
          /\ edited[file] # Absent
          /\ pre[P(file, ".bak")] = edited[file]
          /\ fs[P(file, ".bak")] # edited[file]
          /\ fs[P(file, ".bak")] = pre[P(file, "")]

RestoreRequest == Done /\ req.op = "restore_backup"

\* C4: a successful edit made with backup enabled, followed directly by a
\* successful restore_backup of the same file, leaves the file with exactly
\* the content it had before the edit.
C4_RestoreAfterEditGivesContentBefore ==
    (RestoreRequest /\ res.ok /\ edited[req.file] # Absent) =>
        fs[P(req.file, "")] = edited[req.file]

\* C5: restore_backup on a file whose file + '.bak' does not exist fails and
\* creates, modifies or deletes no file (target, alternates file~,
\* file.backup, file.orig and file + '.before-restore' included), on every
\* call.
C5_RestoreWithoutBackupChangesNothing ==
    (RestoreRequest /\ ~Exists(pre, P(req.file, ".bak"))) =>
        /\ ~res.ok
        /\ fs = pre

\* A restore refused while an alternate backup of the file exists.
C5_Witness ==
    /\ RestoreRequest
    /\ ~Exists(pre, P(req.file, ".bak"))
    /\ Exists(pre, P(req.file, ".orig"))
    /\ Exists(pre, P(req.file, ""))
    /\ res.text = "No .bak file found, but found"

\* C6: whenever restore_backup reports success (and says 'Safety backup
\* created'), file + '.before-restore' exists and holds the content the
\* target had immediately before the restore.
C6_SafetyBackupHoldsContentBeforeRestore ==
    (RestoreRequest /\ res.ok) =>
        /\ Exists(fs, P(req.file, ".before-restore"))
        /\ fs[P(req.file, ".before-restore")] = pre[P(req.file, "")]

\* C7: after a successful restore_backup the target's content equals the
\* content file + '.bak' had when the request started; with keepBackup=true
\* the .bak file is still there unchanged, with keepBackup=false it is gone.
C7_RestoreCopiesBackup ==
    (RestoreRequest /\ res.ok) =>
        /\ fs[P(req.file, "")] = pre[P(req.file, ".bak")]
        /\ req.keepBackup => fs[P(req.file, ".bak")] = pre[P(req.file, ".bak")]
        /\ ~req.keepBackup => ~Exists(fs, P(req.file, ".bak"))

\* Literal replacement, as the claims about quick_replace state it.
OccursAt(find, line, i) ==
    /\ i + Len(find) - 1 <= Len(line)
    /\ SubSeq(line, i, i + Len(find) - 1) = find

Occurs(find, line) == \E i \in 1..Len(line) : OccursAt(find, line, i)

RECURSIVE ReplaceAllFrom(_, _, _, _)
ReplaceAllFrom(find, replace, line, i) ==
    IF i > Len(line) THEN <<>>
    ELSE IF OccursAt(find, line, i)
    THEN replace \o ReplaceAllFrom(find, replace, line, i + Len(find))
    ELSE <<line[i]>> \o ReplaceAllFrom(find, replace, line, i + 1)

ReplaceFirstInLine(find, replace, line) ==
    IF ~Occurs(find, line) THEN line
    ELSE LET i == CHOOSE i \in 1..Len(line) :
                      /\ OccursAt(find, line, i)
                      /\ \A j \in 1..(i - 1) : ~OccursAt(find, line, j)
         IN  Take(line, i - 1) \o replace \o Drop(line, i + Len(find) - 1)

\* Every occurrence in the file replaced.
ReplaceAllInText(find, replace, c) ==
    [lines |-> [k \in 1..Len(c.lines) |-> ReplaceAllFrom(find, replace, c.lines[k], 1)],
     noeol |-> c.noeol]

\* The first occurrence in the file replaced, all others left.
ReplaceFirstInText(find, replace, c) ==
    [lines |-> [k \in 1..Len(c.lines) |->
                   IF \E j \in 1..(k - 1) : Occurs(find, c.lines[j]) THEN c.lines[k]
                   ELSE ReplaceFirstInLine(find, replace, c.lines[k])],
     noeol |-> c.noeol]

QuickReplaceRequest ==
    /\ Done /\ req.op = "quick_replace"
    /\ Exists(pre, P(req.file, ""))

\* find spells no regex operator and no delimiter.
PlainText(find) ==
    \A i \in 1..Len(find) : find[i] \notin (RegexSpecials \cup ReplaceSpecials \cup {"'"})

\* C8: quick_replace with all=false changes the first occurrence of find in
\* the whole file and no other, on any line; with all=true it changes every
\* occurrence.
C8_FirstOccurrenceOnlyOrAll ==
    (QuickReplaceRequest /\ res.ok /\ PlainText(req.find)) =>
        fs[P(req.file, "")] =
            IF req.all
            THEN ReplaceAllInText(req.find, req.replace, pre[P(req.file, "")])
            ELSE ReplaceFirstInText(req.find, req.replace, pre[P(req.file, "")])

\* C9: quick_replace treats find and replace as literal text whatever
\* characters they hold: the request succeeds and, with all=true, exactly the
\* literal occurrences of find are replaced by exactly the text of replace.
C9_QuickReplaceIsLiteral ==
    QuickReplaceRequest =>
        /\ res.ok
        /\ req.all => fs[P(req.file, "")] =
                        ReplaceAllInText(req.find, req.replace, pre[P(req.file, "")])

\* The range (r1, r2) a line_edit range resolves to on an n-line file.
Resolve(range, n) ==
    LET r1 == IF range[1].dollar THEN n ELSE range[1].n
        r2 == IF Len(range) = 1 THEN r1
              ELSE IF range[2].dollar THEN n ELSE range[2].n
    IN  [r1 |-> r1, r2 |-> r2]

ResolvedRange(range, n) ==
    /\ Len(range) \in {1, 2}
    /\ 1 <= Resolve(range, n).r1
    /\ Resolve(range, n).r1 <= Resolve(range, n).r2
    /\ Resolve(range, n).r2 <= n

DeleteRequest ==
    /\ Done /\ req.op = "line_edit" /\ req.action = "delete"
    /\ res.ok
    /\ ResolvedRange(req.range, Len(pre[P(req.file, "")].lines))

\* C10: line_edit delete on a resolved range (r1, r2) of an N-line file
\* leaves N - (r2 - r1 + 1) lines: lines 1..r1-1 unchanged, every former line
\* r2+k now line r1+k-1, and no blank line in place of the deleted ones.
C10_DeleteRemovesExactlyTheRange ==
    DeleteRequest =>
        LET old == pre[P(req.file, "")].lines
            new == fs[P(req.file, "")].lines
            r   == Resolve(req.range, Len(old))
        IN  /\ Len(new) = Len(old) - (r.r2 - r.r1 + 1)
            /\ \A i \in 1..(r.r1 - 1) : new[i] = old[i]
            /\ \A k \in 1..(Len(old) - r.r2) : new[r.r1 + k - 1] = old[r.r2 + k]

\* Two lines deleted from the middle of a file: a line before and a line
\* after the range remain.
C10_Witness ==
    /\ DeleteRequest
    /\ LET r == Resolve(req.range, Len(pre[P(req.file, "")].lines))
       IN  /\ 1 < r.r1 /\ r.r1 < r.r2
           /\ r.r2 < Len(pre[P(req.file, "")].lines)

\* The lines a content argument spells, one per newline-separated piece.
ContentLines(content) == SplitLines(content)

\* A successful or failed line_edit insert addressed to one line n of the
\* file, 1 <= n <= N ('$' being N).
InsertRequest ==
    /\ Done /\ req.op = "line_edit"
    /\ req.action \in {"insert_after", "insert_before"}
    /\ Exists(pre, P(req.file, ""))

SingleLineInsert ==
    /\ InsertRequest
    /\ Len(req.range) = 1
    /\ ResolvedRange(req.range, Len(pre[P(req.file, "")].lines))

\* old with the lines ins put after its line n (n = 0: at the top).
InsertedAfter(old, n, ins) == Take(old, n) \o ins \o Drop(old, n)

\* C11: line_edit insert_after (insert_before) addressed to a single line n
\* of an N-line file, '$' included, succeeds and yields the file with the new
\* content immediately after (before) the former line n, all original lines
\* kept with their content and in their order.
C11_InsertPlacesContentAtLine ==
    SingleLineInsert =>
        LET old == pre[P(req.file, "")].lines
            n   == Resolve(req.range, Len(old)).r1
        IN  /\ res.ok
            /\ fs[P(req.file, "")].lines =
                  InsertedAfter(old, IF req.action = "insert_after" THEN n ELSE n - 1,
                                ContentLines(req.content))

\* A line_edit insert that succeeded on a range (r1, r2) of several lines.
RangeInsert ==
    /\ InsertRequest
    /\ res.ok
    /\ Len(req.range) = 2
    /\ ResolvedRange(req.range, Len(pre[P(req.file, "")].lines))
    /\ LET r == Resolve(req.range, Len(pre[P(req.file, "")].lines))
       IN  r.r1 < r.r2

\* C12: line_edit insert_after or insert_before on a multi-line range 'A,B'
\* inserts once, at the boundary line (after B, before A), not once per line
\* of the range; with 'A,$' and insert_after, once at the end of the file:
\* one line is added there and the lines around it are the original ones.
C12_RangeInsertsOnceAtBoundary ==
    RangeInsert =>
        LET old == pre[P(req.file, "")].lines
            new == fs[P(req.file, "")].lines
            r   == Resolve(req.range, Len(old))
            b   == IF req.action = "insert_after" THEN r.r2 ELSE r.r1 - 1
        IN  /\ Len(new) = Len(old) + 1
            /\ Take(new, b) = Take(old, b)
            /\ Drop(new, b + 1) = Drop(old, b)

\* A request that addresses lines of an existing file explicitly: line_edit,
\* and read_file in lines mode.
AddressedRequest ==
    /\ Done
    /\ \/ req.op = "line_edit"
       \/ req.op = "read_file" /\ req.search = NotGiven /\ req.lines # NotGiven
    /\ Exists(pre, P(req.file, ""))

\* The addresses of the request.
RequestRange == IF req.op = "line_edit" THEN req.range ELSE req.lines

\* The number of lines of the request's file.
LineCount == Len(pre[P(req.file, "")].lines)

\* The request left its file and the file's backup as they were.
FileAndBackupUnchanged ==
    /\ fs[P(req.file, "")] = pre[P(req.file, "")]
    /\ fs[P(req.file, ".bak")] = pre[P(req.file, ".bak")]

\* 1 <= start <= end, and start or the resolved end is beyond the last line.
OutOfRange(range, n) ==
    /\ Len(range) \in {1, 2}
    /\ 1 <= Resolve(range, n).r1
    /\ Resolve(range, n).r1 <= Resolve(range, n).r2
    /\ Resolve(range, n).r2 > n

\* C13: an explicit line address whose start or resolved end exceeds the
\* file's line count makes line_edit and read_file (lines) fail, and leaves
\* the file and its backup unchanged.
C13_OutOfRangeAddressFails ==
    (AddressedRequest /\ OutOfRange(RequestRange, LineCount)) =>
        /\ ~res.ok
        /\ FileAndBackupUnchanged

\* start < 1, or start > end once '$' is resolved.
InvalidRange(range, n) ==
    /\ Len(range) \in {1, 2}
    /\ \/ Resolve(range, n).r1 < 1
       \/ Resolve(range, n).r1 > Resolve(range, n).r2

\* C14: a line range whose start is greater than its end (after resolving
\* '$') or less than 1 makes line_edit and read_file (lines) fail, with no
\* line read out, edited or deleted.
C14_InvalidRangeFails ==
    (AddressedRequest /\ InvalidRange(RequestRange, LineCount)) =>
        /\ ~res.ok
        /\ fs[P(req.file, "")] = pre[P(req.file, "")]

\* The lines of the request's file as text: what a reader of the file sees.
FileText == ReadWriteUtf8(pre[P(req.file, "")]).lines

\* A read_file request in lines mode on an existing file.
LinesRequest ==
    /\ Done /\ req.op = "read_file"
    /\ req.search = NotGiven /\ req.lines # NotGiven
    /\ Exists(pre, P(req.file, ""))

\* C15: read_file with a valid lines specifier, resolved to (start, end) with
\* 1 <= start <= end <= lineCount ('N' is (N, N), 'A-B' is (A, B), an end of
\* '$' is the last line), returns exactly the file's lines start..end, each
\* with its own 1-based number.
C15_ReadFileReturnsLinesOfRange ==
    (LinesRequest /\ ResolvedRange(req.lines, LineCount)) =>
        LET r == Resolve(req.lines, LineCount)
        IN  /\ res.ok
            /\ Len(res.rows) = r.r2 - r.r1 + 1
            /\ \A k \in 1..Len(res.rows) :
                  /\ res.rows[k].num = r.r1 + k - 1
                  /\ res.rows[k].text = FileText[r.r1 + k - 1]

\* A request answered with context blocks.
BlocksRequest ==
    /\ Done /\ res.ok
    /\ \/ req.op \in {"search_in_file", "show_around_line"}
       \/ req.op = "read_file" /\ req.search # NotGiven

\* The block shows lines max(1, i-c)..min(N, i+c) of the file, i its center,
\* numbered, the marker on line i alone.
WindowOf(b, c, n) ==
    LET first == Max(1, b.line - c)
        last  == Min(n, b.line + c)
    IN  /\ b.line \in 1..n
        /\ Len(b.rows) = last - first + 1
        /\ \A k \in 1..Len(b.rows) :
              /\ b.rows[k].num = first + k - 1
              /\ b.rows[k].text = FileText[first + k - 1]
              /\ b.rows[k].marker <=> (first + k - 1 = b.line)

\* C16: every block rendered for a match at line i (search_in_file,
\* read_file search) or for show_around_line at line i covers exactly lines
\* max(1, i-c)..min(N, i+c) of the N-line file with their numbers and the
\* marker on line i only; the blocks come in ascending order of i, one per
\* match, never merged.
C16_ContextWindowClippedToFile ==
    BlocksRequest =>
        /\ \A j \in 1..Len(res.blocks) : WindowOf(res.blocks[j], req.context, LineCount)
        /\ \A j \in 1..(Len(res.blocks) - 1) :
              res.blocks[j].line < res.blocks[j + 1].line
        /\ req.op = "show_around_line" =>
              Len(res.blocks) = 1 /\ res.blocks[1].line = req.lineNumber

\* A search of an existing file that was answered.
SearchRequest ==
    /\ Done
    /\ \/ req.op = "search_in_file"
       \/ req.op = "read_file" /\ req.search # NotGiven
    /\ Exists(pre, P(req.file, ""))

SearchPattern == IF req.op = "search_in_file" THEN req.pattern ELSE req.search

\* The case sensitivity of the search: read_file has no argument for it and
\* always searches with the i flag.
SearchFolds == IF req.op = "search_in_file" THEN req.caseInsensitive ELSE TRUE

\* The line holds the literal text somewhere, letters compared by case or not.
Contains(text, ci, line) ==
    \E k \in 0..(Len(line) - Len(text)) :
        \A j \in 1..Len(text) :
            \/ text[j] = line[k + j]
            \/ ci /\ Fold(text[j]) = Fold(line[k + j])

\* C17: a search reports exactly the lines that contain a match of the
\* pattern under the requested case sensitivity, in ascending order, each
\* line judged alone: whether line k is reported depends on line k and the
\* pattern only.
C17_SearchReportsEveryMatchingLine ==
    (SearchRequest /\ res.ok /\ PlainText(SearchPattern)) =>
        /\ \A j \in 1..Len(res.blocks) : res.blocks[j].line \in 1..LineCount
        /\ \A k \in 1..LineCount :
              Contains(SearchPattern, SearchFolds, FileText[k])
                  <=> \E j \in 1..Len(res.blocks) : res.blocks[j].line = k
        /\ \A j \in 1..(Len(res.blocks) - 1) :
              res.blocks[j].line < res.blocks[j + 1].line

\* A search for literal text that no line of the file contains.
SearchFindsNothing ==
    /\ SearchRequest
    /\ PlainText(SearchPattern)
    /\ \A k \in 1..LineCount : ~Contains(SearchPattern, SearchFolds, FileText[k])

\* A preview of a substitution, run without complaint, whose text no line of
\* the file contains.
PreviewFindsNothing ==
    /\ PreviewRequest
    /\ Exists(pre, P(req.file, ""))
    /\ req.script.kind = "subst"
    /\ \A k \in 1..LineCount : ~Occurs(req.script.from, pre[P(req.file, "")].lines[k])

\* C18 as stated: a search or a preview that finds nothing to match is a
\* success whose payload says 'No matches found' (search) or 'No changes
\* would be made' (preview).
C18_NoMatchIsSuccess ==
    /\ SearchFindsNothing => res.ok /\ res.text = "No matches found"
    /\ PreviewFindsNothing => res.ok /\ res.text = "No changes would be made"

\* The previewed command rewrites the file although nothing matches: awk
\* ends the last line of a file that lacks its final newline.
RewritesAnyway ==
    /\ req.op = "diff_preview" /\ req.tool = "awk"
    /\ pre[P(req.file, "")].noeol

\* C18 amended: a search that finds nothing to match, and a preview whose
\* command finds nothing to match and leaves the content as it is, are
\* successes saying 'No matches found' and 'No changes would be made'.
C18_NoMatchNoChangeIsSuccess ==
    /\ SearchFindsNothing => res.ok /\ res.text = "No matches found"
    /\ (PreviewFindsNothing /\ ~RewritesAnyway) =>
          res.ok /\ res.text = "No changes would be made"

\* An awk preview that finds nothing to match in a file ending with a newline.
C18_Witness ==
    /\ PreviewFindsNothing
    /\ req.op = "diff_preview" /\ req.tool = "awk"
    /\ pre[P(req.file, "")].lines # <<>>
    /\ res.text = "No changes would be made"

\* A search pattern with a group left open or closed twice.
UnbalancedGroups(pattern) ==
    Cardinality({i \in 1..Len(pattern) : pattern[i] = "("})
        # Cardinality({i \in 1..Len(pattern) : pattern[i] = ")"})

\* A request whose pattern, script or command is syntactically invalid,
\* made on a file that exists (sed_multifile: on the files it finds).
InvalidPatternRequest ==
    /\ Done
    /\ \/ /\ req.op \in {"sed_edit", "perl_edit", "diff_preview", "awk_process"}
          /\ req.script.kind = "syntax"
          /\ Exists(pre, P(req.file, ""))
       \/ /\ req.op = "sed_multifile"
          /\ req.script.kind = "syntax"
          /\ res.text # "No files found"
       \/ /\ SearchRequest
          /\ UnbalancedGroups(SearchPattern)

\* C19: a request carrying a syntactically invalid pattern fails with an
\* error, and no file is created, modified or deleted: the filesystem, all
\* the state a following request starts from, is as if the request had never
\* been made.
C19_InvalidPatternFailsWithoutEffect ==
    InvalidPatternRequest =>
        /\ ~res.ok
        /\ fs = pre

\* The operations that take a target file.
FileOps == {"sed_edit", "perl_edit", "quick_replace", "line_edit", "awk_process",
            "diff_preview", "read_file", "search_in_file", "show_around_line"}

\* A request of one of them for a file that does not exist.
MissingFileRequest ==
    /\ Done
    /\ req.op \in FileOps
    /\ ~Exists(pre, P(req.file, ""))

\* C20: every operation that takes a target file checks first that the file
\* exists: when it does not, the request fails with 'File not found' and no
\* file (target, backup, scratch copy, output file) is created, modified or
\* deleted.
C20_MissingFileFailsWithoutEffect ==
    MissingFileRequest =>
        /\ ~res.ok
        /\ res.text = "File not found"
        /\ fs = pre

\* awk_process with an output file, on a missing file whose backup exists,
\* in a directory holding a file named .bak.
C20_Witness ==
    /\ MissingFileRequest
    /\ req.op = "awk_process" /\ req.outputFile # NoOutputFile
    /\ Exists(pre, P(req.file, ".bak"))
    /\ Exists(pre, P("", ".bak"))

\* A request that edits an existing target in place.
InPlaceRequest ==
    /\ Done
    /\ \/ req.op \in {"perl_edit", "quick_replace", "line_edit"}
       \/ req.op = "sed_edit" /\ ~req.preview
    /\ Exists(pre, P(req.file, ""))

\* C22: an edit is never partially applied and its reported outcome matches
\* the file: when sed_edit, perl_edit, quick_replace or line_edit reports an
\* error the target is exactly as it was before the request, and when it
\* reports success the target holds the fully edited content.
C22_OutcomeMatchesFile ==
    InPlaceRequest =>
        /\ ~res.ok => fs[P(req.file, "")] = pre[P(req.file, "")]
        /\ res.ok => fs[P(req.file, "")] = EditOutput(req, pre[P(req.file, "")]).text

\* The response is a success payload or a structured error, never both.
TwoOutcomes ==
    \/ res.ok /\ res.code = "none"
    \/ ~res.ok /\ res.code = "InternalError"

\* A sed_multifile request that found files.
ProcessedRequest == Done /\ req.op = "sed_multifile" /\ res.ok /\ res.text = "Processed"

\* The entries of the payload that report a failed file.
FailedEntries == {k \in 1..Len(res.results) : ~res.results[k].ok}

OneCommandRequest ==
    /\ Done
    /\ req.op \in {"sed_edit", "perl_edit", "quick_replace", "line_edit",
                   "diff_preview", "awk_process"}
    /\ Exists(pre, P(req.file, ""))

\* Whether that command exits with status 0 on the target.
CommandSucceeds ==
    IF req.op \in {"quick_replace", "line_edit", "perl_edit"}
    THEN EditOutput(req, pre[P(req.file, "")]).ok
    ELSE RunScript(req.script, FALSE, pre[P(req.file, "")]).ok

BackupsDisabled == req.op \in {"sed_edit", "perl_edit", "sed_multifile"} /\ ~req.backup

\* The file that holds the backup the request makes of file.
SavedCopy(file) ==
    IF req.op = "restore_backup" THEN P(file, ".before-restore") ELSE P(file, ".bak")

\* The existing files whose content the request replaced.
Overwritten ==
    {file \in Files : Exists(pre, P(file, "")) /\ fs[P(file, "")] # pre[P(file, "")]}

\* C25: every operation that overwrites the content of an existing file
\* first saves that content in a backup, unless the caller disabled backups:
\* sed_edit, perl_edit, sed_multifile, quick_replace, line_edit,
\* restore_backup (file + '.before-restore') and awk_process writing to an
\* outputFile that already exists.
C25_OverwriteSavesBackup ==
    Done /\ ~BackupsDisabled =>
        \A file \in Overwritten : fs[SavedCopy(file)] = pre[P(file, "")]

\* The files the find step of the request returns, in find's order.
FoundFiles ==
    SelectSeq(FileOrder, LAMBDA file : file \in req.matching /\ Exists(pre, P(file, "")))

\* The one run of the request's perl command on the file as it was.
OneRun(file) == RunScript(req.script, FALSE, pre[P(file, "")])

\* C29: sed_multifile processes every file returned by the find step exactly
\* once and in that order: a failure of the edit on one file is recorded as a
\* failed entry for that file and does not stop or undo the edits of the
\* other files, and the payload reports 'Processed N files' with N the number
\* of files found and exactly one result entry per file.
C29_EveryFoundFileProcessedOnce ==
    Done /\ req.op = "sed_multifile" /\ FoundFiles # <<>> =>
        /\ res.ok /\ res.text = "Processed"
        /\ res.count = Len(FoundFiles)
        /\ Len(res.results) = Len(FoundFiles)
        /\ \A k \in 1..Len(FoundFiles) :
              LET file == FoundFiles[k]
              IN  /\ res.results[k].file = file
                  /\ res.results[k].ok = OneRun(file).ok
                  /\ fs[P(file, "")] =
                        IF OneRun(file).ok THEN OneRun(file).text ELSE pre[P(file, "")]

\* Two files found: the edit fails on the first and changes the second, with
\* a script that gives another result when applied twice.
C29_Witness ==
    /\ ProcessedRequest
    /\ Len(res.results) = 2
    /\ ~res.results[1].ok /\ res.results[2].ok
    /\ fs[P(res.results[2].file, "")] # pre[P(res.results[2].file, "")]

\* The suffixes list_backups knows a backup file by.
BackupSuffixes == {".bak", ".backup", ".orig", "~"}

\* A list_backups request that found backup files.
ListedRequest == Done /\ req.op = "list_backups" /\ res.text = "Found backup files"

\* The entry reports that name is the backup of the file name names without suf.
ReportsOriginal(e, suf) ==
    /\ e.info
    /\ e.original = Take(e.backup, Len(e.backup) - Len(SuffixWords(suf)))

\* C26: list_backups reports for each backup file found the original file
\* name inferred by stripping the backup suffix: for the files 'x.bak',
\* 'x.backup', 'x.orig' and 'x~' the reported original is 'x'.
C26_OriginalInferredBySuffix ==
    ListedRequest =>
        \A k \in 1..Len(res.entries) : \A suf \in BackupSuffixes :
           NameMatches(<<"*">> \o SuffixWords(suf), res.entries[k].backup)
              => ReportsOriginal(res.entries[k], suf)

\* C27: a call that names none of the tools fails with the error code
\* MethodNotFound and the message 'Unknown tool: <name>', and the code is
\* still MethodNotFound when the error leaves the handler.
C27_UnknownToolIsMethodNotFound ==
    Done /\ req.op = "unknown" =>
        /\ ~res.ok
        /\ res.code = "MethodNotFound"
        /\ res.text = "Unknown tool"

\* The operations that only inspect.
InspectionOps == {"read_file", "search_in_file", "show_around_line", "list_backups",
                  "help"}

\* C30: the inspection operations read_file, search_in_file,
\* show_around_line, list_backups and help never create, modify or delete a
\* file: whether they succeed or fail, the filesystem after the request,
\* backups and scratch files included, is the one before it.
C30_InspectionChangesNothing ==
    Done /\ req.op \in InspectionOps => fs = pre

\* show_around_line answering with the context of a line of a file that has a
\* backup, after an earlier request.
C30_Witness ==
    /\ Done /\ req.op = "show_around_line" /\ res.ok
    /\ Exists(pre, P(req.file, ".bak"))
    /\ nreq = 2

\* The second of two successive successful restore_backup requests for the
\* same file, both keeping the backup.
SecondRestore ==
    /\ Done /\ req.op = "restore_backup" /\ res.ok /\ req.keepBackup
    /\ restored[req.file] # Absent

\* C28: after two consecutive successful restore_backup requests on the same
\* file with keepBackup=true, the target, file + '.bak' and file +
\* '.before-restore' all hold the backup's content, and the content the
\* target had before the first restore is in none of them.
C28_SecondRestoreLosesOriginal ==
    SecondRestore =>
        LET b == restored[req.file].backup
            t == restored[req.file].before
            copies == {P(req.file, ""), P(req.file, ".bak"), P(req.file, ".before-restore")}
        IN  /\ \A p \in copies : fs[p] = b
            /\ t # b => \A p \in copies : fs[p] # t

\* An edit in place of an existing target, with a backup, at any of its steps.
BackedUpEdit ==
    /\ pc # "idle"
    /\ req.op \in {"sed_edit", "perl_edit", "quick_replace", "line_edit"}
    /\ BackupEdit(req)
    /\ Exists(pre, P(req.file, ""))

\* The target no longer holds the content it had before the edit.
TargetTouched == fs[P(req.file, "")] # pre[P(req.file, "")]

\* The backup holds the content the target had before the edit.
BackupInPlace == fs[P(req.file, ".bak")] = pre[P(req.file, "")]

\* An error of the command that had read the target: a perl script that
\* died, or one that wrote a warning.
MutationStepError ==
    /\ pc = "done" /\ ~res.ok
    /\ req.op \in {"sed_edit", "perl_edit"}
    /\ req.script.kind \in {"die", "warn"}

NewContent ==
    IF req.op = "restore_backup"
    THEN IF Exists(pre, BackupFile(req.file))
         THEN ReadWriteUtf8(pre[BackupFile(req.file)])
         ELSE pre[P(req.file, "")]
    ELSE EditOutput(req, pre[P(req.file, "")]).text

\* C23: the write of new content to the target is one atomic replace: if the
\* process stops at any point during an edit or a restore_backup, the target
\* holds either its complete old content or its complete new content, never
\* an empty, truncated or mixed file.
C23_TargetOldOrNew ==
    pc # "idle" /\ Exists(pre, P(req.file, "")) =>
        \/ fs[P(req.file, "")] = pre[P(req.file, "")]
        \/ fs[P(req.file, "")] = NewContent

====
